---------------------------- MODULE Spec2Model ----------------------------
(***************************************************************************)
(* A model of tiny-msg (src/src/lib.rs): the low-level MsgReader getters   *)
(* over a compound-file container, the UTF-16LE text codec, and the        *)
(* recursive Email builders from_bytes / from_path.                        *)
(*                                                                         *)
(* Text is a sequence of Unicode scalar values, a byte string a sequence   *)
(* of 0..255.  A container maps the component sequence of a path to an     *)
(* entry (storage with ordered children, or stream with its bytes).        *)
(* An entry name is a tuple <<prefix, rest...>>, so that starts_with is a   *)
(* test of the first component.                                            *)
(***************************************************************************)
EXTENDS Integers, Sequences, FiniteSets, TLC

VARIABLES
    cont,      \* the container (path components -> entry)
    valid,     \* whether CompoundFile::open succeeds on the source
    variant,   \* "none" | "bytes" | "path": which high-level constructor runs
    status,    \* "idle" | "running" | "done" | "panic"
    abort,     \* "none" | "open" | "enumerate" | "read": what unwrap() panicked
    stack,     \* the recursion of from_*_internal: one frame per active call
    result,    \* the Email returned by the top-level call (a 0/1 sequence)
    opens,     \* number of CompoundFile::open / cfb::open calls so far
    built,     \* the subpaths from_*_internal was called with, in call order
    maxDepth,  \* deepest recursion level reached (the top-level call is 0)
    call,      \* the last low-level getter call: [op, res]
    input,     \* the byte string handed to the text codec
    output     \* the codec's answer (a 0/1 sequence of results)

vars == <<cont, valid, variant, status, abort, stack, result, opens, built,
          maxDepth, call, input, output>>

(***************************************************************************)
(* Bounds of the model.                                                    *)
(***************************************************************************)
MaxTextBytes == 3
MaxRecips == 2
MaxAttach == 2
MaxMsgs == 4

(***************************************************************************)
(* Results: Ok(v), Err(kind) of MsgError, and the panic of an unwrap().    *)
(***************************************************************************)
Ok(v) == [tag |-> "Ok", val |-> v]
Err(k) == [tag |-> "Err", val |-> k]
Panic == [tag |-> "Panic", val |-> "unwrap"]
IsOk(r) == r.tag = "Ok"
IsErr(r) == r.tag = "Err"
IsPanic(r) == r.tag = "Panic"

\* Option<T> as a sequence of length 0 or 1
None == <<>>
Some(v) == <<v>>

\* Result::ok()
OkOpt(r) == IF IsOk(r) THEN Some(r.val) ELSE None
\* Result::unwrap_or_default() for a Vec
UnwrapOrDefault(r) == IF IsOk(r) THEN r.val ELSE <<>>

(***************************************************************************)
(* Text codec                                                              *)
(***************************************************************************)
\* a plausible slip: the odd trailing byte is dropped instead of padded
PackDropOdd(bytes) ==
    [k \in 1..(Len(bytes) \div 2) |-> bytes[2 * k - 1] + 256 * bytes[2 * k]]

pack_u8s_to_u16s_le_padded(bytes) ==
    [k \in 1..((Len(bytes) + 1) \div 2) |->
        LET lsb == bytes[2 * k - 1]
            msb == IF 2 * k <= Len(bytes) THEN bytes[2 * k] ELSE 0
        IN  lsb + 256 * msb]

IsHighSurrogate(u) == u >= 55296 /\ u <= 56319
IsLowSurrogate(u) == u >= 56320 /\ u <= 57343

\* String::from_utf16: every high surrogate must be followed by a low one and
\* every low one preceded by a high one; a pair makes one scalar value
Utf16WellFormed(u) ==
    \A i \in 1..Len(u) :
        /\ IsHighSurrogate(u[i]) => (i < Len(u) /\ IsLowSurrogate(u[i + 1]))
        /\ IsLowSurrogate(u[i]) => (i > 1 /\ IsHighSurrogate(u[i - 1]))

FromUtf16(u) ==
    IF ~Utf16WellFormed(u) THEN Err("Encoding")
    ELSE LET starts == SelectSeq([i \in 1..Len(u) |-> i],
                                 LAMBDA i : ~IsLowSurrogate(u[i]))
         IN  Ok([k \in 1..Len(starts) |->
                    IF IsHighSurrogate(u[starts[k]])
                    THEN 65536 + (u[starts[k]] - 55296) * 1024
                               + (u[starts[k] + 1] - 56320)
                    ELSE u[starts[k]]])

\* str::trim_end_matches('\0')
TrimEndNul(s) ==
    LET keep == {i \in 1..Len(s) : s[i] # 0}
    IN  IF keep = {} THEN <<>>
        ELSE SubSeq(s, 1, CHOOSE i \in keep : \A j \in keep : j <= i)

\* the decoding tail shared by read_simple_string and read_path_as_string
DecodeText(buf) ==
    LET r == FromUtf16(pack_u8s_to_u16s_le_padded(buf))
    IN  IF IsOk(r) THEN Ok(TrimEndNul(r.val)) ELSE r

\* String::from_utf8: the scalar values from index i on, <<-1>> in front when
\* the bytes are not well-formed UTF-8
Cont(b) == b >= 128 /\ b <= 191

RECURSIVE Utf8From(_, _)
Utf8From(b, i) ==
    IF i > Len(b) THEN <<>>
    ELSE LET x == b[i]
             n == IF x < 128 THEN 1
                  ELSE IF x >= 194 /\ x <= 223 THEN 2
                  ELSE IF x >= 224 /\ x <= 239 THEN 3
                  ELSE IF x >= 240 /\ x <= 244 THEN 4
                  ELSE 0
             fits == n > 0 /\ i + n - 1 <= Len(b)
             wellFormed ==
                 /\ fits
                 /\ \A k \in 1..(n - 1) : Cont(b[i + k])
                 /\ (x = 224 => b[i + 1] >= 160)
                 /\ (x = 237 => b[i + 1] <= 159)
                 /\ (x = 240 => b[i + 1] >= 144)
                 /\ (x = 244 => b[i + 1] <= 143)
             scalar ==
                 IF n = 1 THEN x
                 ELSE IF n = 2 THEN (x - 192) * 64 + (b[i + 1] - 128)
                 ELSE IF n = 3 THEN (x - 224) * 4096 + (b[i + 1] - 128) * 64
                                    + (b[i + 2] - 128)
                 ELSE (x - 240) * 262144 + (b[i + 1] - 128) * 4096
                      + (b[i + 2] - 128) * 64 + (b[i + 3] - 128)
         IN  IF ~wellFormed THEN <<-1>>
             ELSE LET rest == Utf8From(b, i + n)
                  IN  IF rest # <<>> /\ rest[1] = -1 THEN <<-1>>
                      ELSE <<scalar>> \o rest

FromUtf8(b) ==
    LET s == Utf8From(b, 1)
    IN  IF s # <<>> /\ s[1] = -1 THEN Err("Encoding") ELSE Ok(s)


(***************************************************************************)
(* Paths (std::path) and the container access port (cfb)                   *)
(***************************************************************************)
Root == [abs |-> TRUE, comps |-> <<>>]
Rel(name) == [abs |-> FALSE, comps |-> <<name>>]
\* Path::join: an absolute argument replaces the base
Join(a, b) == IF b.abs THEN b ELSE [abs |-> a.abs, comps |-> a.comps \o b.comps]

SubStgPrefix == "__substg1.0_"
RecipPrefix == "__recip_version1.0_"
AttachPrefix == "__attach_version1.0_"
SubStg(prop, type) == <<SubStgPrefix, prop, type>>
NameStartsWith(name, prefix) == name[1] = prefix

Storage(children) ==
    [kind |-> "storage", children |-> children, read |-> "ok", data |-> <<>>]
Stream(data) ==
    [kind |-> "stream", children |-> <<>>, read |-> "ok", data |-> data]
\* a stream that opens but whose sectors cannot be read
BrokenStream ==
    [kind |-> "stream", children |-> <<>>, read |-> "fail", data |-> <<>>]

\* a plausible slip: a missing stream reported under the catch-all kind
OpenStreamUnknown(c, p) ==
    IF p.comps \in DOMAIN c /\ c[p.comps].kind = "stream"
    THEN Ok(c[p.comps]) ELSE Err("Unknown")

\* CompoundFile::open_stream(..)?: io::Error -> MsgError::IO through #[from]
OpenStream(c, p) ==
    IF p.comps \in DOMAIN c /\ c[p.comps].kind = "stream"
    THEN Ok(c[p.comps]) ELSE Err("IO")

\* content.read_to_end(&mut buf).unwrap()
ReadToEndUnwrap(stream) ==
    IF stream.read = "ok" THEN Ok(stream.data) ELSE Panic

IsStorage(c, p) == p.comps \in DOMAIN c /\ c[p.comps].kind = "storage"

\* CompoundFile::read_storage(..)?: the entries in enumeration order
ReadStorage(c, p) ==
    IF IsStorage(c, p)
    THEN Ok([i \in 1..Len(c[p.comps].children) |->
                [name |-> c[p.comps].children[i],
                 path |-> [abs |-> TRUE,
                           comps |-> Append(p.comps, c[p.comps].children[i])]]])
    ELSE Err("IO")

(***************************************************************************)
(* Result combinators as the code uses them                                *)
(***************************************************************************)
\* r.or_else(|_| s): s is evaluated only when r is an Err; a panic in r
\* unwinds past it
OrElse(r, s) == IF IsErr(r) THEN s ELSE r

(***************************************************************************)
(* MsgReader: scalar properties                                            *)
(***************************************************************************)
read_simple_string(c, path, prop) ==
    LET content == OpenStream(c, Join(path, Rel(SubStg(prop, "001F"))))
    IN  IF ~IsOk(content) THEN content
        ELSE LET buf == ReadToEndUnwrap(content.val)
             IN  IF ~IsOk(buf) THEN buf ELSE DecodeText(buf.val)

read_simple_binary(c, path, prop) ==
    LET content == OpenStream(c, Join(path, Rel(SubStg(prop, "0102"))))
    IN  IF ~IsOk(content) THEN content ELSE ReadToEndUnwrap(content.val)

read_path_as_binary(c, path, subpath) ==
    LET content == OpenStream(c, Join(path, subpath))
    IN  IF ~IsOk(content) THEN content ELSE ReadToEndUnwrap(content.val)

read_path_as_string(c, path, subpath) ==
    LET content == OpenStream(c, Join(path, subpath))
    IN  IF ~IsOk(content) THEN content
        ELSE LET buf == ReadToEndUnwrap(content.val)
             IN  IF ~IsOk(buf) THEN buf ELSE DecodeText(buf.val)

pr_subject(c, path) == read_simple_string(c, path, "0037")
pr_sender_name(c, path) == read_simple_string(c, path, "0C1A")
pr_sender_email_adress_str(c, path) == read_simple_string(c, path, "0C19")
pr_smtp_sender_address(c, path) == read_simple_string(c, path, "5D01")
pr_smtp_address(c, path) == read_simple_string(c, path, "39FE")
pr_transport_message_headers(c, path) == read_simple_string(c, path, "007D")

sender_address(c, path) ==
    OrElse(OrElse(pr_sender_email_adress_str(c, path), pr_smtp_address(c, path)),
           pr_smtp_sender_address(c, path))

\* Ok((self.pr_sender_name()?, self.sender_address()?))
from(c, path) ==
    LET name == pr_sender_name(c, path)
    IN  IF ~IsOk(name) THEN name
        ELSE LET addr == sender_address(c, path)
             IN  IF ~IsOk(addr) THEN addr ELSE Ok(<<name.val, addr.val>>)

(***************************************************************************)
(* MsgReader: body                                                         *)
(***************************************************************************)
pr_body_html(c, path) ==
    LET bin == read_simple_binary(c, path, "1013")
    IN  IF ~IsOk(bin) THEN bin ELSE FromUtf8(bin.val)

pr_rtf_compressed(c, path) == read_simple_binary(c, path, "1009")

\* compressed_rtf::decompress_rtf, an external transform: a blob is a one-byte
\* header naming the container kind followed by the stored text; any other
\* blob is rejected
RtfMagic == {76}
decompress_rtf(comp) ==
    IF Len(comp) >= 1 /\ comp[1] \in RtfMagic
    THEN Ok(SubSeq(comp, 2, Len(comp))) ELSE Err("Rtf")

rtf(c, path) ==
    LET comp == pr_rtf_compressed(c, path)
    IN  IF ~IsOk(comp) THEN comp
        ELSE LET d == decompress_rtf(comp.val)
             IN  IF IsOk(d) THEN d ELSE Err("Encoding")

body(c, path) == OrElse(pr_body_html(c, path), rtf(c, path))

(***************************************************************************)
(* Text helpers of std::str as the code uses them                          *)
(***************************************************************************)
StartsWith(s, p) == Len(s) >= Len(p) /\ SubSeq(s, 1, Len(p)) = p

\* str::split(ch): the pieces between the occurrences of ch, empty ones kept
RECURSIVE SplitChar(_, _)
SplitChar(s, ch) ==
    IF \E i \in 1..Len(s) : s[i] = ch
    THEN LET i == CHOOSE k \in 1..Len(s) :
                      s[k] = ch /\ \A j \in 1..(k - 1) : s[j] # ch
         IN  <<SubSeq(s, 1, i - 1)>> \o SplitChar(SubSeq(s, i + 1, Len(s)), ch)
    ELSE <<s>>

\* char::is_whitespace (the White_Space code points)
IsWhitespace(ch) ==
    \/ ch \in 9..13
    \/ ch \in {32, 133, 160, 5760, 8232, 8233, 8239, 8287, 12288}
    \/ ch \in 8192..8202

\* str::trim
Trim(s) ==
    LET keep == {i \in 1..Len(s) : ~IsWhitespace(s[i])}
    IN  IF keep = {} THEN <<>>
        ELSE SubSeq(s, CHOOSE i \in keep : \A j \in keep : i <= j,
                       CHOOSE i \in keep : \A j \in keep : j <= i)

\* str::lines: split at \n, a trailing \r of a line removed, no final empty line
StripCr(l) == IF l # <<>> /\ l[Len(l)] = 13 THEN SubSeq(l, 1, Len(l) - 1) ELSE l
Lines(s) ==
    LET pieces == SplitChar(s, 10)
        kept == IF pieces[Len(pieces)] = <<>>
                THEN SubSeq(pieces, 1, Len(pieces) - 1) ELSE pieces
    IN  [i \in 1..Len(kept) |-> StripCr(kept[i])]

\* str::split_once(": "): the text after the first occurrence, or None
SplitOnceAfter(s, pat) ==
    LET hits == {k \in 1..(Len(s) - Len(pat) + 1) : SubSeq(s, k, k + Len(pat) - 1) = pat}
    IN  IF hits = {} THEN None
        ELSE LET k == CHOOSE h \in hits : \A g \in hits : h <= g
             IN  Some(SubSeq(s, k + Len(pat), Len(s)))

\* the elements of a sequence
Range(f) == {f[i] : i \in DOMAIN f}

(***************************************************************************)
(* MsgReader: sent date                                                    *)
(***************************************************************************)
\* chrono::DateTime::parse_from_rfc2822, an external parser: the date-times it
\* accepts among the texts of the model, with the instant (seconds since the
\* epoch) and the offset (minutes) each denotes
Rfc2822Known ==
    { [text |-> <<49, 32, 74, 97, 110, 32, 50, 48, 48, 48, 32, 48, 48, 58, 48, 48,
                  32, 43, 48, 48, 48, 48>>,
       instant |-> 946684800, offset |-> 0],
      [text |-> <<49, 32, 74, 97, 110, 32, 50, 48, 48, 48, 32, 48, 49, 58, 48, 48,
                  32, 43, 48, 49, 48, 48>>,
       instant |-> 946684800, offset |-> 60] }

parse_from_rfc2822(text) ==
    IF \E d \in Rfc2822Known : d.text = text
    THEN LET d == CHOOSE e \in Rfc2822Known : e.text = text
         IN  Ok([instant |-> d.instant, offset |-> d.offset])
    ELSE Err("Parse")

sent_date(c, path) ==
    LET headers == pr_transport_message_headers(c, path)
    IN  IF ~IsOk(headers) THEN headers
        ELSE LET ls == Lines(headers.val)
                 \* .find(|x| x.starts_with("Date"))
                 hit == {i \in 1..Len(ls) : StartsWith(ls[i], <<68, 97, 116, 101>>)}
             IN  IF hit = {} THEN Err("Encoding")
                 ELSE LET line == ls[CHOOSE i \in hit : \A j \in hit : i <= j]
                          dateline == SplitOnceAfter(line, <<58, 32>>)
                      IN  IF dateline = None THEN Err("Encoding")
                          ELSE LET d == parse_from_rfc2822(dateline[1])
                               IN  \* .map(|d| d.with_timezone(&Utc))
                                   IF IsOk(d)
                                   THEN Ok([instant |-> d.val.instant, offset |-> 0])
                                   ELSE Err("Encoding")

(***************************************************************************)
(* MsgReader: recipients and their roles                                   *)
(***************************************************************************)
\* the paths of the entries of a storage whose name starts with a prefix
EntryPaths(entries, prefix) ==
    LET sel == SelectSeq(entries, LAMBDA e : NameStartsWith(e.name, prefix))
    IN  [i \in 1..Len(sel) |-> sel[i].path]

\* .map(|r| { ..? ..? Ok((name, address)) }).collect::<Result<Vec<_>>>():
\* the entries are read in order and the first failure ends the collection
RECURSIVE CollectRecipients(_, _, _, _)
CollectRecipients(c, path, recip_paths, i) ==
    IF i > Len(recip_paths) THEN Ok(<<>>)
    ELSE LET name == read_path_as_string(c, path,
                        Join(recip_paths[i], Rel(SubStg("3001", "001F"))))
         IN  IF ~IsOk(name) THEN name
             ELSE LET address == read_path_as_string(c, path,
                                    Join(recip_paths[i], Rel(SubStg("39FE", "001F"))))
                  IN  IF ~IsOk(address) THEN address
                      ELSE LET rest == CollectRecipients(c, path, recip_paths, i + 1)
                           IN  IF ~IsOk(rest) THEN rest
                               ELSE Ok(<<<<name.val, address.val>>>> \o rest.val)

recipients(c, path) ==
    LET entries == ReadStorage(c, path)
    IN  IF ~IsOk(entries) THEN entries
        ELSE CollectRecipients(c, path, EntryPaths(entries.val, RecipPrefix), 1)

\* the body shared by to, cc and bcc: the role's display-name list selects
\* the recipients
RoleList(field) ==
    LET parts == SplitChar(field, 59)
    IN  [i \in 1..Len(parts) |-> Trim(parts[i])]

RoleRecipients(c, path, prop) ==
    LET field == read_simple_string(c, path, prop)
    IN  IF ~IsOk(field) THEN field
        ELSE LET list == RoleList(field.val)
                 all == recipients(c, path)
             IN  IF ~IsOk(all) THEN all
                 ELSE Ok(SelectSeq(all.val, LAMBDA kv : kv[1] \in Range(list)))

to(c, path) == RoleRecipients(c, path, "0E04")

\* a plausible slip in the triplicated code: cc reads the To list
ccReadsToList(c, path) == RoleRecipients(c, path, "0E04")

cc(c, path) == RoleRecipients(c, path, "0E03")
bcc(c, path) == RoleRecipients(c, path, "0E02")

(***************************************************************************)
(* MsgReader: attachments and embedded messages                            *)
(***************************************************************************)
\* the closure of attachments(): one entry's Result<Attachment>
AttachmentOf(c, path, a) ==
    LET name == OrElse(read_path_as_string(c, path, Join(a, Rel(SubStg("3704", "001F")))),
                       read_path_as_string(c, path, Join(a, Rel(SubStg("3001", "001F")))))
    IN  IF ~IsOk(name) THEN name
        ELSE LET data == read_path_as_binary(c, path,
                            Join(a, Rel(SubStg("3701", "0102"))))
             IN  IF ~IsOk(data) THEN data
                 ELSE Ok([name |-> name.val, data |-> data.val])

\* .flat_map(..).collect(): an Err entry yields nothing, an Ok entry one item
RECURSIVE FlatMapAttachments(_, _, _, _)
FlatMapAttachments(c, path, attachment_paths, i) ==
    IF i > Len(attachment_paths) THEN Ok(<<>>)
    ELSE LET one == AttachmentOf(c, path, attachment_paths[i])
         IN  IF IsPanic(one) THEN one
             ELSE LET rest == FlatMapAttachments(c, path, attachment_paths, i + 1)
                  IN  IF ~IsOk(rest) THEN rest
                      ELSE IF IsOk(one) THEN Ok(<<one.val>> \o rest.val) ELSE rest

attachments(c, path) ==
    LET entries == ReadStorage(c, path)
    IN  IF ~IsOk(entries) THEN entries
        ELSE FlatMapAttachments(c, path, EntryPaths(entries.val, AttachPrefix), 1)

EmbeddedName == SubStg("3701", "000D")

\* a plausible slip: the last embedded message is lost
embedded_messagesDropLast(c, path) ==
    LET entries == ReadStorage(c, path)
    IN  IF ~IsOk(entries) THEN entries
        ELSE LET joined == [i \in 1..Len(EntryPaths(entries.val, AttachPrefix)) |->
                               Join(EntryPaths(entries.val, AttachPrefix)[i],
                                    Rel(EmbeddedName))]
                 res == SelectSeq(joined, LAMBDA a : IsStorage(c, a))
             IN  Ok(SubSeq(res, 1, Len(res) - 1))

\* a plausible slip: the is_storage filter is left out
embedded_messagesNoFilter(c, path) ==
    LET entries == ReadStorage(c, path)
    IN  IF ~IsOk(entries) THEN entries
        ELSE Ok([i \in 1..Len(EntryPaths(entries.val, AttachPrefix)) |->
                    Join(EntryPaths(entries.val, AttachPrefix)[i], Rel(EmbeddedName))])

embedded_messages(c, path) ==
    LET entries == ReadStorage(c, path)
    IN  IF ~IsOk(entries) THEN entries
        ELSE LET joined == [i \in 1..Len(EntryPaths(entries.val, AttachPrefix)) |->
                               Join(EntryPaths(entries.val, AttachPrefix)[i],
                                    Rel(EmbeddedName))]
             IN  Ok(SelectSeq(joined, LAMBDA a : IsStorage(c, a)))

(***************************************************************************)
(* The containers the model is run on                                      *)
(***************************************************************************)
\* the UTF-16LE bytes of a text of the Basic Multilingual Plane
Utf16LE(s) ==
    [i \in 1..(2 * Len(s)) |->
        IF i % 2 = 1 THEN s[(i + 1) \div 2] % 256 ELSE s[i \div 2] \div 256]

\* how a stream is found in a container: absent, unreadable, or with bytes
Missing == [s |-> "missing", d |-> <<>>]
Broken == [s |-> "broken", d |-> <<>>]
Data(b) == [s |-> "data", d |-> b]
Text(s) == Data(Utf16LE(s))
\* one unpaired high surrogate: not UTF-16
BadText == Data(<<0, 216>>)

\* the child entry (none when absent) of a stream found as st
StreamChild(base, name, st) ==
    IF st.s = "missing" THEN <<>>
    ELSE <<[name |-> name,
            pairs |-> {<<Append(base, name),
                         IF st.s = "broken" THEN BrokenStream ELSE Stream(st.d)>>}]>>

\* a storage at base with the given children (each with the pairs below it)
StoragePairs(base, children) ==
    {<<base, Storage([i \in 1..Len(children) |-> children[i].name])>>}
        \cup UNION {children[i].pairs : i \in 1..Len(children)}

StorageChild(base, name, children) ==
    <<[name |-> name, pairs |-> StoragePairs(Append(base, name), children)]>>

FromPairs(P) ==
    [p \in {x[1] : x \in P} |-> (CHOOSE x \in P : x[1] = p)[2]]

SeqsUpTo(S, n) == UNION {[1..k -> S] : k \in 0..n}

\* one message whose sender properties vary
SenderContainers ==
    { FromPairs(StoragePairs(<<>>,
          StreamChild(<<>>, SubStg("0C1A", "001F"), n)
          \o StreamChild(<<>>, SubStg("0C19", "001F"), a)
          \o StreamChild(<<>>, SubStg("39FE", "001F"), b)
          \o StreamChild(<<>>, SubStg("5D01", "001F"), d))) :
        n \in {Missing, Text(<<110>>)},
        a \in {Missing, Broken, BadText, Text(<<49>>)},
        b \in {Missing, Broken, BadText, Text(<<50>>)},
        d \in {Missing, Broken, BadText, Text(<<51, 0, 0>>)} }

\* one message whose body properties vary
BodyContainers ==
    { FromPairs(StoragePairs(<<>>,
          StreamChild(<<>>, SubStg("1013", "0102"), h)
          \o StreamChild(<<>>, SubStg("1009", "0102"), r))) :
        h \in {Missing, Broken, Data(<<104>>), Data(<<195, 169>>), Data(<<255>>),
               Data(<<237, 160, 128>>)},
        r \in {Missing, Broken, Data(<<76, 114>>), Data(<<0, 114>>)} }

\* one message whose subject and transport headers vary
HeaderTexts ==
    { <<>>,
      \* "Received: x"
      <<82, 101, 99, 101, 105, 118, 101, 100, 58, 32, 120>>,
      \* "Date 1"
      <<68, 97, 116, 101, 32, 49>>,
      \* "Date: soon"
      <<68, 97, 116, 101, 58, 32, 115, 111, 111, 110>>,
      \* "To: a\r\nDate: 1 Jan 2000 00:00 +0000\r\n"
      <<84, 111, 58, 32, 97, 13, 10, 68, 97, 116, 101, 58, 32,
        49, 32, 74, 97, 110, 32, 50, 48, 48, 48, 32, 48, 48, 58, 48, 48,
        32, 43, 48, 48, 48, 48, 13, 10>>,
      \* "Date: 1 Jan 2000 01:00 +0100\nDate: soon"
      <<68, 97, 116, 101, 58, 32,
        49, 32, 74, 97, 110, 32, 50, 48, 48, 48, 32, 48, 49, 58, 48, 48,
        32, 43, 48, 49, 48, 48, 10,
        68, 97, 116, 101, 58, 32, 115, 111, 111, 110>> }

HeaderContainers ==
    { FromPairs(StoragePairs(<<>>,
          StreamChild(<<>>, SubStg("0037", "001F"), s)
          \o StreamChild(<<>>, SubStg("007D", "001F"), h))) :
        s \in {Missing, Broken, BadText, Text(<<115>>)},
        h \in {Missing, Broken, BadText} \cup {Text(t) : t \in HeaderTexts} }

\* one message with up to n recipient entries and varying role lists; entry i
\* has the address "x<i>" when it has one
RecipientChild(i, r) ==
    StorageChild(<<>>, <<RecipPrefix, i>>,
        StreamChild(<<<<RecipPrefix, i>>>>, SubStg("3001", "001F"), r.name)
        \o StreamChild(<<<<RecipPrefix, i>>>>, SubStg("39FE", "001F"),
                       IF r.addr THEN Text(<<120, 48 + i>>) ELSE Missing))

RECURSIVE RecipientChildren(_, _)
RecipientChildren(rs, i) ==
    IF i > Len(rs) THEN <<>>
    ELSE RecipientChild(i, rs[i]) \o RecipientChildren(rs, i + 1)

RecipientEntries ==
    [name : {Missing, Broken, Text(<<97>>), Text(<<98>>)}, addr : BOOLEAN]

RecipientContainers(n) ==
    { FromPairs(StoragePairs(<<>>,
          StreamChild(<<>>, SubStg("0E04", "001F"), t)
          \o StreamChild(<<>>, SubStg("0E03", "001F"), k)
          \o StreamChild(<<>>, SubStg("0E02", "001F"), b)
          \o RecipientChildren(rs, 1))) :
        t \in {Missing, Text(<<97>>)},
        \* Cc: "b" or " a ;b"
        k \in {Missing, Text(<<98>>), Text(<<32, 97, 32, 59, 98>>)},
        b \in {Missing, Text(<<>>), Text(<<98>>)},
        rs \in SeqsUpTo(RecipientEntries, n) }

\* one message with up to n attachment entries; entry i has the long name
\* "L<i>", the short name "S<i>" and the data <<i>> when it has them
AttachmentChild(i, a) ==
    StorageChild(<<>>, <<AttachPrefix, i>>,
        StreamChild(<<<<AttachPrefix, i>>>>, SubStg("3704", "001F"),
                    IF a.long = "data" THEN Text(<<76, 48 + i>>)
                    ELSE IF a.long = "broken" THEN Broken ELSE Missing)
        \o StreamChild(<<<<AttachPrefix, i>>>>, SubStg("3001", "001F"),
                       IF a.short THEN Text(<<83, 48 + i>>) ELSE Missing)
        \o StreamChild(<<<<AttachPrefix, i>>>>, SubStg("3701", "0102"),
                       IF a.data = "data" THEN Data(<<i>>)
                       ELSE IF a.data = "broken" THEN Broken ELSE Missing))

RECURSIVE AttachmentChildren(_, _)
AttachmentChildren(as, i) ==
    IF i > Len(as) THEN <<>>
    ELSE AttachmentChild(i, as[i]) \o AttachmentChildren(as, i + 1)

AttachmentEntries ==
    [long : {"missing", "broken", "data"}, short : BOOLEAN,
     data : {"missing", "broken", "data"}]

AttachmentContainers(n) ==
    { FromPairs(StoragePairs(<<>>, AttachmentChildren(as, 1))) :
        as \in SeqsUpTo(AttachmentEntries, n) }

ReaderContainers ==
    SenderContainers \cup BodyContainers \cup HeaderContainers
        \cup RecipientContainers(MaxRecips) \cup AttachmentContainers(MaxAttach)

(***************************************************************************)
(* The text codec on its own: every byte string up to MaxTextBytes over    *)
(* bytes that make NULs, ASCII, and paired and unpaired surrogates         *)
(***************************************************************************)
CodecBytes == {0, 65, 216, 220, 255}

InitCodec ==
    /\ input \in SeqsUpTo(CodecBytes, MaxTextBytes)
    /\ output = None
    /\ cont = FromPairs(StoragePairs(<<>>, <<>>))
    /\ valid = TRUE
    /\ variant = "none"
    /\ status = "idle"
    /\ abort = "none"
    /\ stack = <<>>
    /\ result = None
    /\ opens = 0
    /\ built = <<>>
    /\ maxDepth = 0
    /\ call = [op |-> "none", res |-> Ok(<<>>)]

\* the decoding of a text property's bytes (lib.rs:143-145, 165-167)
Decode ==
    /\ output = None
    /\ output' = Some(DecodeText(input))
    /\ UNCHANGED <<cont, valid, variant, status, abort, stack, result, opens,
                   built, maxDepth, call, input>>

NextCodec == Decode
SpecCodec == InitCodec /\ [][NextCodec]_vars

\* C7: an odd-length byte string decodes to what it decodes to with one zero
\* byte appended (the same text or the same error); in particular the odd
\* length alone never makes the decoding fail
C7_OddLengthPadding ==
    (output # None /\ Len(input) % 2 = 1)
        => output[1] = DecodeText(Append(input, 0))

\* an odd-length string has been decoded to a non-empty text
C7_Witness ==
    /\ output # None
    /\ Len(input) = 3
    /\ IsOk(output[1])
    /\ Len(output[1].val) = 2

(***************************************************************************)
(* The low-level API: a MsgReader bound to the root of a container, its    *)
(* public getters called in any order.  A getter that panics ends the      *)
(* process.                                                                *)
(***************************************************************************)
InitReader ==
    /\ cont \in ReaderContainers
    /\ valid = TRUE
    /\ call = [op |-> "none", res |-> Ok(<<>>)]
    /\ status = "idle"
    /\ abort = "none"
    /\ variant = "none"
    /\ stack = <<>>
    /\ result = None
    /\ opens = 1
    /\ built = <<>>
    /\ maxDepth = 0
    /\ input = <<>>
    /\ output = None

Getter(op, r) ==
    /\ status = "idle"
    /\ call' = [op |-> op, res |-> r]
    /\ status' = IF IsPanic(r) THEN "panic" ELSE "idle"
    /\ abort' = IF IsPanic(r) THEN "read" ELSE "none"
    /\ UNCHANGED <<cont, valid, variant, stack, result, opens, built, maxDepth,
                   input, output>>

CallPrSubject == Getter("pr_subject", pr_subject(cont, Root))
CallSenderAddress == Getter("sender_address", sender_address(cont, Root))
CallFrom == Getter("from", from(cont, Root))
CallPrBodyHtml == Getter("pr_body_html", pr_body_html(cont, Root))
CallBody == Getter("body", body(cont, Root))
CallSentDate == Getter("sent_date", sent_date(cont, Root))
CallTo == Getter("to", to(cont, Root))
CallCc == Getter("cc", cc(cont, Root))
CallBcc == Getter("bcc", bcc(cont, Root))
CallAttachments == Getter("attachments", attachments(cont, Root))
CallEmbeddedMessages == Getter("embedded_messages", embedded_messages(cont, Root))

NextReader ==
    \/ CallPrSubject
    \/ CallSenderAddress
    \/ CallFrom
    \/ CallPrBodyHtml
    \/ CallBody
    \/ CallSentDate
    \/ CallTo
    \/ CallCc
    \/ CallBcc
    \/ CallAttachments
    \/ CallEmbeddedMessages

SpecReader == InitReader /\ [][NextReader]_vars

(***************************************************************************)
(* What the container holds, read off the container itself                 *)
(***************************************************************************)
\* how the stream of a property under a storage is found
Found(base, name) ==
    IF Append(base, name) \notin DOMAIN cont
       \/ cont[Append(base, name)].kind # "stream" THEN "missing"
    ELSE IF cont[Append(base, name)].read # "ok" THEN "broken"
    ELSE "data"
BytesAt(base, name) == cont[Append(base, name)].data
\* a text property that reads and decodes
TextReadable(base, name) ==
    Found(base, name) = "data" /\ IsOk(DecodeText(BytesAt(base, name)))
TextAt(base, name) == DecodeText(BytesAt(base, name)).val

ChildrenWith(base, prefix) ==
    SelectSeq(cont[base].children, LAMBDA n : NameStartsWith(n, prefix))

\* C3: sender_address returns the first of 0C19, 39FE, 5D01 that reads
\* successfully, and fails only when all three fail
C3_SenderFallbackOrder ==
    call.op = "sender_address" =>
        LET n1 == SubStg("0C19", "001F")
            n2 == SubStg("39FE", "001F")
            n3 == SubStg("5D01", "001F")
        IN  IF TextReadable(<<>>, n1) THEN call.res = Ok(TextAt(<<>>, n1))
            ELSE IF TextReadable(<<>>, n2) THEN call.res = Ok(TextAt(<<>>, n2))
            ELSE IF TextReadable(<<>>, n3) THEN call.res = Ok(TextAt(<<>>, n3))
            ELSE IsErr(call.res)

\* the same, of the calls that return: the order is as claimed whenever no
\* stream read panics
SenderFallbackOrderWhenReturning ==
    IsPanic(call.res) \/ C3_SenderFallbackOrder

\* C6: body is the UTF-8 decoding of the HTML property when that is present
\* and valid, else the decompressed RTF, else an error
C6_BodyPreference ==
    call.op = "body" =>
        LET h == SubStg("1013", "0102")
            r == SubStg("1009", "0102")
        IN  IF Found(<<>>, h) = "data" /\ IsOk(FromUtf8(BytesAt(<<>>, h)))
            THEN call.res = FromUtf8(BytesAt(<<>>, h))
            ELSE IF Found(<<>>, r) = "data" /\ IsOk(decompress_rtf(BytesAt(<<>>, r)))
            THEN call.res = decompress_rtf(BytesAt(<<>>, r))
            ELSE IsErr(call.res)

BodyPreferenceWhenReturning ==
    IsPanic(call.res) \/ C6_BodyPreference

\* C5: attachments returns, in enumeration order, one Attachment per entry
\* whose data and a filename are readable, named by the long filename when
\* readable and else by the short one; the other entries are omitted and do
\* not affect the rest
AttachmentKept(a) ==
    /\ Found(<<a>>, SubStg("3701", "0102")) = "data"
    /\ \/ TextReadable(<<a>>, SubStg("3704", "001F"))
       \/ TextReadable(<<a>>, SubStg("3001", "001F"))
AttachmentExpected(a) ==
    [name |-> IF TextReadable(<<a>>, SubStg("3704", "001F"))
              THEN TextAt(<<a>>, SubStg("3704", "001F"))
              ELSE TextAt(<<a>>, SubStg("3001", "001F")),
     data |-> BytesAt(<<a>>, SubStg("3701", "0102"))]
C5_AttachmentsListed ==
    call.op = "attachments" =>
        LET kept == SelectSeq(ChildrenWith(<<>>, AttachPrefix), AttachmentKept)
        IN  call.res = Ok([i \in 1..Len(kept) |-> AttachmentExpected(kept[i])])

AttachmentsListedWhenReturning ==
    IsPanic(call.res) \/ C5_AttachmentsListed

\* the entries of a role's display-name list as the container holds it
RoleProp(op) == IF op = "to" THEN "0E04" ELSE IF op = "cc" THEN "0E03" ELSE "0E02"
ListEntries(prop) ==
    IF TextReadable(<<>>, SubStg(prop, "001F"))
    THEN Range(RoleList(TextAt(<<>>, SubStg(prop, "001F"))))
    ELSE {}
RecipientNames == Range(ChildrenWith(<<>>, RecipPrefix))
RecipientComplete(r) ==
    /\ TextReadable(<<r>>, SubStg("3001", "001F"))
    /\ TextReadable(<<r>>, SubStg("39FE", "001F"))
RecipientPair(r) ==
    <<TextAt(<<r>>, SubStg("3001", "001F")), TextAt(<<r>>, SubStg("39FE", "001F"))>>
OnlyInCc(name) ==
    /\ name \in ListEntries("0E03")
    /\ name \notin ListEntries("0E04")
    /\ name \notin ListEntries("0E02")

UndatedHeaders ==
    { <<>>,
      <<82, 101, 99, 101, 105, 118, 101, 100, 58, 32, 120>>,
      <<68, 97, 116, 101, 32, 49>>,
      <<68, 97, 116, 101, 58, 32, 115, 111, 111, 110>> }
HeadersUndated ==
    /\ TextReadable(<<>>, SubStg("007D", "001F"))
    /\ TextAt(<<>>, SubStg("007D", "001F")) \in UndatedHeaders
SubjectUndecodable ==
    /\ Found(<<>>, SubStg("0037", "001F")) = "data"
    /\ ~IsOk(DecodeText(BytesAt(<<>>, SubStg("0037", "001F"))))
HtmlUndecodable ==
    /\ Found(<<>>, SubStg("1013", "0102")) = "data"
    /\ ~IsOk(FromUtf8(BytesAt(<<>>, SubStg("1013", "0102"))))

\* C8 as stated: a missing stream is reported as PropertyMissing, a payload
\* that does not decode as Encoding, headers without a usable Date line as
\* FormatViolation
C8_DistinctErrorKinds ==
    /\ (call.op = "pr_subject" /\ Found(<<>>, SubStg("0037", "001F")) = "missing")
          => call.res = Err("PropertyMissing")
    /\ (call.op = "pr_subject" /\ SubjectUndecodable) => call.res = Err("Encoding")
    /\ (call.op = "pr_body_html" /\ HtmlUndecodable) => call.res = Err("Encoding")
    /\ (call.op = "sent_date" /\ HeadersUndated)
          => call.res = Err("FormatViolation")

\* C8 amended: MsgError has no PropertyMissing and no FormatViolation kind; a
\* missing stream is reported as IO, a payload that does not decode as
\* Encoding, and headers without a usable Date line as Encoding too
C8_ErrorKinds ==
    /\ (call.op = "pr_subject" /\ Found(<<>>, SubStg("0037", "001F")) = "missing")
          => call.res = Err("IO")
    /\ (call.op = "pr_body_html" /\ Found(<<>>, SubStg("1013", "0102")) = "missing")
          => call.res = Err("IO")
    /\ (call.op = "sent_date" /\ Found(<<>>, SubStg("007D", "001F")) = "missing")
          => call.res = Err("IO")
    /\ (call.op = "pr_subject" /\ SubjectUndecodable) => call.res = Err("Encoding")
    /\ (call.op = "pr_body_html" /\ HtmlUndecodable) => call.res = Err("Encoding")
    /\ (call.op = "sent_date" /\ HeadersUndated) => call.res = Err("Encoding")

\* sent_date was called on headers that decode but hold only a malformed date
C8_Witness ==
    /\ call.op = "sent_date"
    /\ TextReadable(<<>>, SubStg("007D", "001F"))
    /\ TextAt(<<>>, SubStg("007D", "001F"))
          = <<68, 97, 116, 101, 58, 32, 115, 111, 111, 110>>
    /\ IsErr(call.res)

(***************************************************************************)
(* Containers with nested messages: message 1 is the root, message i > 1   *)
(* is embedded in an attachment entry of message parent[i].  Message j has *)
(* the subject "m<j>" (unreadable when j = bad); with extra = "plain" each *)
(* message starts with an ordinary attachment entry, with extra = "stream" *)
(* that entry also has a 3701000D that is a stream, not a storage.         *)
(***************************************************************************)
RECURSIVE Flatten(_)
Flatten(ss) == IF ss = <<>> THEN <<>> ELSE ss[1] \o Flatten(Tail(ss))

ParentVectors(n) ==
    {f \in [1..n -> 0..(n - 1)] : f[1] = 0 /\ \A i \in 2..n : f[i] >= 1 /\ f[i] < i}

RECURSIVE MsgChildren(_, _, _, _, _, _)
MsgChildren(parent, n, extra, bad, j, base) ==
    LET off == IF extra = "none" THEN 0 ELSE 1
        kids == SelectSeq([k \in 1..n |-> k], LAMBDA k : parent[k] = j)
        e0 == Append(base, <<AttachPrefix, 0>>)
        extraChild ==
            IF extra = "none" THEN <<>>
            ELSE StorageChild(base, <<AttachPrefix, 0>>,
                     StreamChild(e0, SubStg("3704", "001F"), Text(<<101>>))
                     \o StreamChild(e0, SubStg("3701", "0102"), Data(<<j>>))
                     \o (IF extra = "stream"
                         THEN StreamChild(e0, EmbeddedName, Data(<<>>)) ELSE <<>>))
        kidChild(q) ==
            LET an == <<AttachPrefix, off + q - 1>>
                ab == Append(base, an)
            IN  StorageChild(base, an,
                    StreamChild(ab, SubStg("3001", "001F"), Text(<<109, 48 + kids[q]>>))
                    \o StorageChild(ab, EmbeddedName,
                           MsgChildren(parent, n, extra, bad, kids[q],
                                       Append(ab, EmbeddedName))))
    IN  StreamChild(base, SubStg("0037", "001F"),
                    IF bad = j THEN Broken ELSE Text(<<109, 48 + j>>))
        \o extraChild
        \o Flatten([q \in 1..Len(kids) |-> kidChild(q)])

TreeContainers ==
    UNION { { FromPairs(StoragePairs(<<>>, MsgChildren(parent, n, extra, bad, 1, <<>>))) :
                parent \in ParentVectors(n),
                extra \in {"none", "plain", "stream"},
                bad \in 0..n } :
            n \in 1..MaxMsgs }

BuildContainers ==
    TreeContainers \cup SenderContainers \cup BodyContainers \cup HeaderContainers
        \cup RecipientContainers(1) \cup AttachmentContainers(1)

(***************************************************************************)
(* The high-level API: Email::from_bytes and Email::from_path              *)
(***************************************************************************)
\* a plausible slip (and what the handle-passing design would do): only the
\* first call opens the container
OpenOnlyAtRoot(n) == IF n = 0 THEN 1 ELSE n

\* CompoundFile::open(cur) / cfb::open(file): one more open, whose number
\* names the handle
OpenContainer(n) == n + 1

\* the getters a node's build calls before it enumerates embedded messages
FieldResults(c, path) ==
    [from |-> from(c, path),
     sent_date |-> sent_date(c, path),
     to |-> to(c, path),
     cc |-> cc(c, path),
     bcc |-> bcc(c, path),
     subject |-> pr_subject(c, path),
     body |-> body(c, path),
     attachments |-> attachments(c, path)]

\* .ok() and .unwrap_or_default() of each
Fields(r) ==
    [from |-> OkOpt(r.from),
     sent_date |-> OkOpt(r.sent_date),
     to |-> UnwrapOrDefault(r.to),
     cc |-> UnwrapOrDefault(r.cc),
     bcc |-> UnwrapOrDefault(r.bcc),
     subject |-> OkOpt(r.subject),
     body |-> OkOpt(r.body),
     attachments |-> UnwrapOrDefault(r.attachments)]

\* the call from_bytes_internal(bytes, subpath) / from_path_internal(file,
\* subpath) up to its recursive calls: open, read the fields, enumerate
from_internal(subpath) ==
    LET r == FieldResults(cont, subpath)
        emb_paths == embedded_messages(cont, subpath)
    IN  /\ opens' = OpenContainer(opens)
        /\ built' = Append(built, subpath)
        /\ IF ~valid
           THEN /\ status' = "panic"
                /\ abort' = "open"
                /\ UNCHANGED <<stack, maxDepth>>
           ELSE IF \E f \in DOMAIN r : IsPanic(r[f])
           THEN /\ status' = "panic"
                /\ abort' = "read"
                /\ UNCHANGED <<stack, maxDepth>>
           ELSE IF ~IsOk(emb_paths)
           THEN /\ status' = "panic"
                /\ abort' = "enumerate"
                /\ UNCHANGED <<stack, maxDepth>>
           ELSE /\ status' = "running"
                /\ abort' = "none"
                /\ stack' = Append(stack,
                               [path |-> subpath,
                                handle |-> OpenContainer(opens),
                                fields |-> Fields(r),
                                emb_paths |-> emb_paths.val,
                                embedded_messages |-> <<>>])
                /\ maxDepth' = IF Len(stack) > maxDepth THEN Len(stack) ELSE maxDepth
        /\ UNCHANGED <<cont, valid, result, call, input, output>>

Unopenable == FromPairs(StoragePairs(<<>>, <<>>))

Init ==
    /\ \/ valid = TRUE /\ cont \in BuildContainers
       \/ valid = FALSE /\ cont = Unopenable
    /\ variant = "none"
    /\ status = "idle"
    /\ abort = "none"
    /\ stack = <<>>
    /\ result = None
    /\ opens = 0
    /\ built = <<>>
    /\ maxDepth = 0
    /\ call = [op |-> "none", res |-> Ok(<<>>)]
    /\ input = <<>>
    /\ output = None

from_bytes ==
    /\ status = "idle"
    /\ variant' = "bytes"
    /\ from_internal(Root)

from_path ==
    /\ status = "idle"
    /\ variant' = "path"
    /\ from_internal(Root)

\* the next recursive call of the map over emb_paths
Descend ==
    /\ status = "running"
    /\ LET top == stack[Len(stack)]
       IN  /\ Len(top.embedded_messages) < Len(top.emb_paths)
           /\ from_internal(top.emb_paths[Len(top.embedded_messages) + 1])
    /\ UNCHANGED variant

\* the map is exhausted: Self { .. } is returned to the caller
Return ==
    /\ status = "running"
    /\ LET top == stack[Len(stack)]
           email == [from |-> top.fields.from,
                     sent_date |-> top.fields.sent_date,
                     to |-> top.fields.to,
                     cc |-> top.fields.cc,
                     bcc |-> top.fields.bcc,
                     subject |-> top.fields.subject,
                     body |-> top.fields.body,
                     attachments |-> top.fields.attachments,
                     embedded_messages |-> top.embedded_messages]
       IN  /\ Len(top.embedded_messages) = Len(top.emb_paths)
           /\ IF Len(stack) = 1
              THEN /\ result' = Some(email)
                   /\ status' = "done"
                   /\ stack' = <<>>
              ELSE /\ stack' = [SubSeq(stack, 1, Len(stack) - 1) EXCEPT
                                   ![Len(stack) - 1].embedded_messages =
                                       Append(@, email)]
                   /\ UNCHANGED <<result, status>>
    /\ UNCHANGED <<cont, valid, variant, abort, opens, built, maxDepth, call,
                   input, output>>

Next ==
    \/ from_bytes
    \/ from_path
    \/ Descend
    \/ Return

Spec == Init /\ [][Next]_vars

(***************************************************************************)
(* The message tree the container holds, read off the container itself     *)
(***************************************************************************)
\* the storages that are messages: the root, and every 3701000D storage of
\* an attachment entry of a message
MessagePaths ==
    {p \in DOMAIN cont :
        /\ cont[p].kind = "storage"
        /\ Len(p) % 2 = 0
        /\ \A i \in 1..Len(p) :
              IF i % 2 = 1 THEN NameStartsWith(p[i], AttachPrefix)
              ELSE p[i] = EmbeddedName}

\* the embedded messages of the message at base, in enumeration order
EmbeddedOf(base) ==
    LET atts == ChildrenWith(base, AttachPrefix)
        subs == [i \in 1..Len(atts) |-> base \o <<atts[i], EmbeddedName>>]
    IN  SelectSeq(subs, LAMBDA p : p \in DOMAIN cont /\ cont[p].kind = "storage")

NestingDepth ==
    CHOOSE d \in 0..Cardinality(DOMAIN cont) :
        /\ \E p \in MessagePaths : Len(p) = 2 * d
        /\ \A p \in MessagePaths : Len(p) <= 2 * d

SubjectOf(base) ==
    IF TextReadable(base, SubStg("0037", "001F"))
    THEN Some(TextAt(base, SubStg("0037", "001F"))) ELSE None

\* an Email is the tree of the message at base: its own subject, and one
\* nested Email per embedded message, in order, each the tree of that message
RECURSIVE EmailIsTreeOf(_, _)
EmailIsTreeOf(email, base) ==
    /\ email.subject = SubjectOf(base)
    /\ Len(email.embedded_messages) = Len(EmbeddedOf(base))
    /\ \A k \in 1..Len(email.embedded_messages) :
          EmailIsTreeOf(email.embedded_messages[k], EmbeddedOf(base)[k])

IsStrictPrefix(p, q) == Len(p) < Len(q) /\ SubSeq(q, 1, Len(p)) = p

\* C1: the build aborts only when the container cannot be opened or a
\* node's storage cannot be enumerated, never on a failure while resolving a
\* field (missing stream, stream read failure, decode failure)
C1_NoFieldFailureAborts ==
    status = "panic" => abort \in {"open", "enumerate"}

\* the failures that are no stream read failure do leave the field absent:
\* a build that meets no unreadable stream returns a Message
FieldFailuresDegrade ==
    (status = "panic" /\ abort = "read")
        => \E p \in DOMAIN cont : cont[p].kind = "stream" /\ cont[p].read = "fail"

\* C2: every node built at path p gets exactly one nested Message per
\* attachment entry under p whose 3701000D sub-path is a storage, in
\* enumeration order, each built recursively from that sub-path (none when no
\* entry has such a storage)
C2_EmbeddedMessagesPerEntry ==
    /\ \A i \in 1..Len(stack) :
          /\ [k \in 1..Len(stack[i].emb_paths) |-> stack[i].emb_paths[k].comps]
                = EmbeddedOf(stack[i].path.comps)
          /\ \A k \in 1..Len(stack[i].embedded_messages) :
                EmailIsTreeOf(stack[i].embedded_messages[k],
                              stack[i].emb_paths[k].comps)
    /\ status = "done" => EmailIsTreeOf(result[1], <<>>)

\* a Message was returned with two embedded messages, the second of which
\* has an embedded message of its own, beside an ordinary attachment entry
C2_Witness ==
    /\ status = "done"
    /\ Len(result[1].embedded_messages) = 2
    /\ Len(result[1].embedded_messages[2].embedded_messages) = 1
    /\ Len(ChildrenWith(<<>>, AttachPrefix)) = 3

\* the calls and returns a build still has before it: what bounds its length
BuildVariant ==
    IF status = "idle" THEN 2 * Cardinality(MessagePaths) + 2
    ELSE IF status = "running"
    THEN 2 * (Cardinality(MessagePaths) - Len(built)) + Len(stack)
    ELSE 0

C9_Safety ==
    /\ \A i, j \in 1..Len(built) : i # j => built[i] # built[j]
    /\ \A i \in 2..Len(stack) :
          IsStrictPrefix(stack[i - 1].path.comps, stack[i].path.comps)
    /\ maxDepth <= NestingDepth
    /\ BuildVariant >= 0
    \* a running build always has a next step: a recursive call or a return
    /\ status = "running" =>
          /\ stack # <<>>
          /\ Len(stack[Len(stack)].embedded_messages)
                <= Len(stack[Len(stack)].emb_paths)
    /\ status = "done" =>
          /\ {built[i].comps : i \in 1..Len(built)} = MessagePaths
          /\ maxDepth = NestingDepth

\* C9: the build terminates (every step lowers a natural-valued variant and
\* a running build can always step); no path is built twice and a build that
\* returns has built every embedded-message path once; each recursive call's
\* path is a strict descendant of its caller's; the deepest recursion level
\* equals the longest chain of nested embedded-message storages
C9_TerminatesOncePerPath ==
    /\ []C9_Safety
    /\ [][BuildVariant' < BuildVariant]_vars

\* a build has returned from a container nested three messages deep
C9_Witness ==
    /\ status = "done"
    /\ maxDepth = 2
    /\ Len(built) = 4

\* C10 as stated: from_bytes opens the container once, at the top level
C10_BytesOpenedOnce ==
    (variant = "bytes" /\ status = "done") => opens = 1

\* C10 amended: in both variants every call of the internal builder opens
\* the container anew (from_bytes_internal from the same bytes,
\* from_path_internal from the same file): the opens are as many as the
\* calls, and no two nodes read through the same handle
C10_OpenedPerNode ==
    /\ opens = Len(built)
    /\ \A i, j \in 1..Len(stack) : i # j => stack[i].handle # stack[j].handle

\* from_bytes has returned a tree of three or more nodes
C10_Witness ==
    /\ variant = "bytes"
    /\ status = "done"
    /\ opens >= 3

=============================================================================
